---- MODULE Spec2Model ----
(***************************************************************************)
(* Model of tools/fix_notebook.py: one invocation of main() after another  *)
(* on one notebook path.  A run checks that the file exists, parses it,    *)
(* deletes malformed metadata.widgets entries at notebook level and in     *)
(* every cell, and, if anything was deleted, copies the file to a          *)
(* timestamped backup and overwrites it with the corrected document.       *)
(***************************************************************************)
EXTENDS Integers, Sequences, FiniteSets, TLC

\* ------------------------------------------------------------------ bounds
MaxCells == 3      \* longest `cells` list drawn for the initial document
MaxRuns  == 2      \* invocations of main() on the same path
MaxClock == 1      \* distinct whole-second timestamps 0..MaxClock

\* ------------------------------------------------------ JSON value model
\* Every JSON value is a record of one shape; t names its Python type.
\* A str is its sequence of characters, a dict is its ordered list of
\* key/value entries (Python dicts keep insertion order).
Null      == [t |-> "null", n |-> 0, w |-> <<>>, items |-> <<>>, kv |-> <<>>]
Bool      == [t |-> "bool", n |-> 1, w |-> <<>>, items |-> <<>>, kv |-> <<>>]
Num(n)    == [t |-> "num",  n |-> n, w |-> <<>>, items |-> <<>>, kv |-> <<>>]
Str(w)    == [t |-> "str",  n |-> 0, w |-> w,    items |-> <<>>, kv |-> <<>>]
List(xs)  == [t |-> "list", n |-> 0, w |-> <<>>, items |-> xs,   kv |-> <<>>]
Dict(kv)  == [t |-> "dict", n |-> 0, w |-> <<>>, items |-> <<>>, kv |-> kv]
KV(k, v)  == [k |-> k, v |-> v]

\* A str is the sequence of its characters, dict keys included.  The string
\* literals of lines 31 and 63-78:
K_STATE    == <<"s","t","a","t","e">>
K_METADATA == <<"m","e","t","a","d","a","t","a">>
K_WIDGETS  == <<"w","i","d","g","e","t","s">>
K_CELLS    == <<"c","e","l","l","s">>

\* Python `sub in s` for two strings: substring test.
IsSubstr(sub, s) ==
  \E j \in 0..(Len(s) - Len(sub)) : SubSeq(s, j + 1, j + Len(sub)) = sub

\* Python `k in v` for a str key k: raises TypeError on a non-container.
PyInRaises(v) == v.t \in {"null", "num", "bool"}
PyIn(k, v) ==
  CASE v.t = "dict" -> \E j \in 1..Len(v.kv) : v.kv[j].k = k
    [] v.t = "list" -> \E j \in 1..Len(v.items) : v.items[j] = Str(k)
    [] v.t = "str"  -> IsSubstr(k, v.w)
    [] OTHER        -> FALSE

\* Python `v[k]` for a str key k: TypeError unless v is a dict.
PyGetItemRaises(v) == v.t # "dict"
PyGetItem(v, k) ==
  LET j == CHOOSE j \in 1..Len(v.kv) : v.kv[j].k = k IN v.kv[j].v

\* Variant of PyDelItem that empties the whole mapping.
PyDelItem_Clear(v, k) == [v EXCEPT !.kv = <<>>]

\* Python `del v[k]` on a dict: the other entries keep their order.
PyDelItem(v, k) == [v EXCEPT !.kv = SelectSeq(v.kv, LAMBDA e : e.k # k)]

\* The effect on the enclosing dict d of mutating d[k] in place to nv.
PySetItem(d, k, nv) ==
  [d EXCEPT !.kv = [j \in 1..Len(d.kv) |->
                      IF d.kv[j].k = k THEN KV(k, nv) ELSE d.kv[j]]]

\* Python iteration (enumerate): a list yields its items, a dict its keys,
\* a str its characters; anything else raises TypeError.
PyIterRaises(v) == v.t \in {"null", "num", "bool"}
PyIter(v) ==
  CASE v.t = "list" -> v.items
    [] v.t = "dict" -> [j \in 1..Len(v.kv) |-> Str(v.kv[j].k)]
    [] v.t = "str"  -> [j \in 1..Len(v.w) |-> Str(<<v.w[j]>>)]
    [] OTHER        -> <<>>

\* ------------------------------------------------- has_valid_widget_state
\* Variant that accepts every mapping, with or without `state`.
has_valid_widget_state_AnyDict(widgets_metadata) ==
  widgets_metadata.t = "dict"

\* Variant that also demands a non-empty mapping under `state`.
has_valid_widget_state_Strict(widgets_metadata) ==
  /\ widgets_metadata.t = "dict"
  /\ PyIn(K_STATE, widgets_metadata)
  /\ PyGetItem(widgets_metadata, K_STATE).kv # <<>>

has_valid_widget_state(widgets_metadata) ==
  IF widgets_metadata.t # "dict"
  THEN FALSE
  ELSE PyIn(K_STATE, widgets_metadata)

\* ------------------------------------------------------ the scan, by step
\* Each step returns [raised, nb, changed]: whether an uncaught TypeError
\* left the step, the notebook after it, and whether it deleted an entry.
StepResult(raised, nb, changed) ==
  [raised |-> raised, nb |-> nb, changed |-> changed]

\* Lines 63-69: the notebook-level check.
NotebookLevel(nb) ==
  IF PyInRaises(nb) THEN StepResult(TRUE, nb, FALSE)
  ELSE IF ~PyIn(K_METADATA, nb) THEN StepResult(FALSE, nb, FALSE)
  ELSE IF PyGetItemRaises(nb) THEN StepResult(TRUE, nb, FALSE)
  ELSE LET md == PyGetItem(nb, K_METADATA) IN
    IF PyInRaises(md) THEN StepResult(TRUE, nb, FALSE)
    ELSE IF ~PyIn(K_WIDGETS, md) THEN StepResult(FALSE, nb, FALSE)
    ELSE IF PyGetItemRaises(md) THEN StepResult(TRUE, nb, FALSE)
    ELSE IF has_valid_widget_state(PyGetItem(md, K_WIDGETS))
         THEN StepResult(FALSE, nb, FALSE)
         ELSE StepResult(FALSE,
                         PySetItem(nb, K_METADATA, PyDelItem(md, K_WIDGETS)),
                         TRUE)

\* Lines 72-73: `if 'cells' in notebook` and the start of the iteration.
\* Returns "skip" (no cells key), "raise" or "loop".
CellsEntry(nb) ==
  IF PyInRaises(nb) THEN "raise"
  ELSE IF ~PyIn(K_CELLS, nb) THEN "skip"
  ELSE IF PyGetItemRaises(nb) THEN "raise"
  ELSE IF PyIterRaises(PyGetItem(nb, K_CELLS)) THEN "raise"
  ELSE "loop"

\* The sequence the for loop walks; items of a list are the cells
\* themselves, so an earlier deletion shows in the notebook.
CellSeq(nb) == PyIter(PyGetItem(nb, K_CELLS))

\* Lines 74-79: the loop body for the cell at 0-based index idx.
CellStep(nb, idx) ==
  LET cell == CellSeq(nb)[idx + 1] IN
  IF PyInRaises(cell) THEN StepResult(TRUE, nb, FALSE)
  ELSE IF ~PyIn(K_METADATA, cell) THEN StepResult(FALSE, nb, FALSE)
  ELSE IF PyGetItemRaises(cell) THEN StepResult(TRUE, nb, FALSE)
  ELSE LET md == PyGetItem(cell, K_METADATA) IN
    IF PyInRaises(md) THEN StepResult(TRUE, nb, FALSE)
    ELSE IF ~PyIn(K_WIDGETS, md) THEN StepResult(FALSE, nb, FALSE)
    ELSE IF PyGetItemRaises(md) THEN StepResult(TRUE, nb, FALSE)
    ELSE IF has_valid_widget_state(PyGetItem(md, K_WIDGETS))
         THEN StepResult(FALSE, nb, FALSE)
         ELSE LET cells   == PyGetItem(nb, K_CELLS)
                  newCell == PySetItem(cell, K_METADATA,
                                       PyDelItem(md, K_WIDGETS))
                  newList == [cells EXCEPT !.items[idx + 1] = newCell]
              IN StepResult(FALSE, PySetItem(nb, K_CELLS, newList), TRUE)

\* ------------------------------------------------------------ file model
\* A file is absent, or holds text.  Text that parses carries the document
\* it parses to and its layout: "src" (as the author saved it, ending in a
\* newline), "indent2" (json.dump(indent=2, ensure_ascii=False) plus a
\* newline), and "src_body" and "body" (the same two without the final
\* newline).  "garbage" is text that is not JSON, "truncated" an emptied
\* file or a prefix that does not parse.
NoDoc       == Null
Absent      == [kind |-> "absent",    doc |-> NoDoc, style |-> "none"]
Garbage     == [kind |-> "garbage",   doc |-> NoDoc, style |-> "none"]
Truncated   == [kind |-> "truncated", doc |-> NoDoc, style |-> "none"]
Text(d, st) == [kind |-> "json",      doc |-> d,     style |-> st]

\* json.load: succeeds exactly on JSON text and forgets the layout.
ParseFails(f) == f.kind # "json"
Parse(f)      == f.doc
\* json.dump(notebook, f, indent=2, ensure_ascii=False); f.write('\n')
Dump(d)       == Text(d, "indent2")
\* the file when line 96 completed and the newline of line 97 did not
DumpBody(d)   == Text(d, "body")

\* f without its last byte, as a copy leaves it that fails one byte short:
\* a text that ends in a newline still parses, any other no longer does.
Chop(f) ==
  IF f.kind = "json" /\ f.style = "indent2" THEN Text(f.doc, "body")
  ELSE IF f.kind = "json" /\ f.style = "src" THEN Text(f.doc, "src_body")
  ELSE Truncated
\* shutil.copy2(src, dst) that raised: dst is as it was, truncated, src short
\* of its last byte, or all of src (copystat failed).
FailedCopy(src, dst) == {dst, Truncated, Chop(src), src}

\* A line printed on standard output.
Msg(m, idx) == [msg |-> m, i |-> idx]

\* Variant of CellNotice that counts cells from 1.
CellNotice_OneBased(idx) == Msg("remove_cell", idx + 1)

\* Line 77: the removal notice for the cell at index idx.
CellNotice(idx) == Msg("remove_cell", idx)

\* ------------------------------------------------- the initial documents
\* Other keys of the initial documents.
K_FOO         == <<"f","o","o">>
K_NBFORMAT    == <<"n","b","f","o","r","m","a","t">>
K_KERNELSPEC  == <<"k","e","r","n","e","l","s","p","e","c">>
K_LANGUAGE    == <<"l","a","n","g","u","a","g","e">>
K_CELL_TYPE   == <<"c","e","l","l","_","t","y","p","e">>
K_SOURCE      == <<"s","o","u","r","c","e">>
K_MY_METADATA == <<"m","y","_","m","e","t","a","d","a","t","a">>
K_STATE_CAP   == <<"S","t","a","t","e">>
K_ESTATE      == <<"e","s","t","a","t","e">>

Other == Num(1)
ValidWidgets == Dict(<<KV(K_STATE, Dict(<<>>))>>)
TopWidgetVals ==
  { Null, Num(7), Str(<<"x">>), List(<<>>), Dict(<<>>),
    Dict(<<KV(K_FOO, Other)>>), ValidWidgets,
    Dict(<<KV(K_FOO, Other), KV(K_STATE, Null)>>),
    Dict(<<KV(K_STATE_CAP, Other), KV(K_ESTATE, Other)>>) }
CellWidgetVals == { Dict(<<>>), ValidWidgets }
ShortWidgetVals == { Null, Num(7), Str(<<"x">>), List(<<Other>>), Dict(<<>>),
                     Dict(<<KV(K_FOO, Other)>>), ValidWidgets }

MetaWith(w) ==
  Dict(<<KV(K_KERNELSPEC, Str(<<"p">>)), KV(K_WIDGETS, w),
         KV(K_LANGUAGE, Num(3))>>)
MetaPlain == Dict(<<KV(K_KERNELSPEC, Str(<<"p">>))>>)

PlainCell == Dict(<<KV(K_CELL_TYPE, Str(<<"c">>)), KV(K_SOURCE, List(<<>>))>>)
CellWith(md) ==
  Dict(<<KV(K_CELL_TYPE, Str(<<"c">>)), KV(K_METADATA, md),
         KV(K_SOURCE, List(<<>>))>>)
CellOpts == {PlainCell} \cup {CellWith(MetaWith(w)) : w \in CellWidgetVals}

CellLists == UNION {[1..n -> CellOpts] : n \in 0..MaxCells}
PairLists == UNION {[1..n -> CellOpts] : n \in 0..2}
ShortLists ==
  {<<>>} \cup {<<c>> : c \in {PlainCell, CellWith(MetaPlain)}
                             \cup {CellWith(MetaWith(w)) : w \in ShortWidgetVals}}

\* Top-level mappings: optional metadata, nbformat, optional cells.
NbNoMeta(cs)   == Dict(<<KV(K_NBFORMAT, Num(4)), KV(K_CELLS, List(cs))>>)
NbMeta(md, cs) ==
  Dict(<<KV(K_METADATA, md), KV(K_NBFORMAT, Num(4)), KV(K_CELLS, List(cs))>>)
NbOnlyMeta(md) == Dict(<<KV(K_METADATA, md), KV(K_NBFORMAT, Num(4))>>)

\* Documents of the shape the format prescribes.
ShapedDocs ==
  {NbNoMeta(cs) : cs \in CellLists}
    \cup {NbMeta(MetaPlain, cs) : cs \in ShortLists}
    \cup {NbMeta(MetaWith(Null), cs) : cs \in PairLists}
    \cup {NbMeta(MetaWith(w), cs) : w \in TopWidgetVals,
                                     cs \in UNION {[1..n -> CellOpts] : n \in 0..1}}
    \cup {NbOnlyMeta(MetaWith(w)) : w \in TopWidgetVals}

\* Parseable documents of other shapes.
OddValues ==
  { Null, Bool, Num(5), Str(<<"x">>), Str(K_METADATA),
    Str(K_WIDGETS), List(<<>>), List(<<Str(K_METADATA)>>),
    List(<<Str(K_WIDGETS)>>), List(<<Str(K_CELLS)>>) }
BadCell == CellWith(MetaWith(Null))
OddDocs ==
  OddValues
    \cup {NbOnlyMeta(v) : v \in OddValues}
    \cup {Dict(<<KV(K_CELLS, v)>>) : v \in OddValues}
    \cup {Dict(<<KV(K_CELLS, Dict(<<KV(K_FOO, Other)>>))>>),
          Dict(<<KV(K_CELLS, Dict(<<KV(K_METADATA, Other)>>))>>),
          Dict(<<KV(K_CELLS, Dict(<<KV(K_FOO, Other), KV(K_MY_METADATA, Other)>>))>>),
          Dict(<<KV(K_MY_METADATA, MetaWith(Null)), KV(K_CELLS, Str(K_MY_METADATA))>>)}
    \cup {NbNoMeta(<<v>>) : v \in OddValues \cup {CellWith(MetaWith(List(<<Other>>)))}}
    \cup {NbNoMeta(<<BadCell, v, BadCell>>) : v \in OddValues}
    \cup {NbMeta(MetaWith(Null), <<CellWith(v)>>) : v \in OddValues}

InitFiles ==
  {Absent, Garbage}
    \cup {Text(d, "src") : d \in ShapedDocs \cup OddDocs}
    \cup {Text(d, "indent2") : d \in OddDocs}
    \cup {Text(NbMeta(MetaWith(w), cs), "indent2") :
             w \in {Null, ValidWidgets}, cs \in ShortLists}

\* ----------------------------------------------------------------- state
VARIABLES
  file,          \* the file at notebook_path
  backups,       \* timestamp -> the file at notebook_path.bak-<timestamp>
  clock,         \* the last whole second read from the system clock
  runs,          \* invocations of main() started so far
  pc,            \* position of the current run
  notebook,      \* the parsed notebook, mutated in memory
  changes_made,  \* the local variable of fix_notebook
  i,             \* index of the next cell of the for loop
  ts,            \* timestamp in backup_path, -1 before it is computed
  ret,           \* fix_notebook's return value: "none", "true", "false"
  exitCode,      \* process exit status, -1 while running
  log,           \* standard output of the current run
  file0,         \* history: file when the current run began
  backups0,      \* history: backups when the current run began
  prevOk,        \* history: the previous run exited with status 0
  faults         \* history: I/O steps of the current run that failed

vars == <<file, backups, clock, runs, pc, notebook, changes_made, i, ts, ret,
          exitCode, log, file0, backups0, prevOk, faults>>

NoBackups == [t \in 0..MaxClock |-> Absent]

Init ==
  /\ file \in InitFiles
  /\ backups = NoBackups
  /\ clock = 0
  /\ runs = 0
  /\ pc = "idle"
  /\ notebook = Null
  /\ changes_made = FALSE
  /\ i = 0
  /\ ts = -1
  /\ ret = "none"
  /\ exitCode = -1
  /\ log = <<>>
  /\ file0 = file
  /\ backups0 = NoBackups
  /\ prevOk = FALSE
  /\ faults = {}

\* --------------------------------------------------------------- actions
\* main(), lines 131-134: parse the argument and call fix_notebook.
Invoke ==
  /\ pc \in {"idle", "exit", "crashed"}
  /\ runs < MaxRuns
  /\ runs' = runs + 1
  /\ pc' = "exists"
  /\ notebook' = Null
  /\ changes_made' = FALSE
  /\ i' = 0
  /\ ts' = -1
  /\ ret' = "none"
  /\ exitCode' = -1
  /\ log' = <<>>
  /\ file0' = file
  /\ backups0' = backups
  /\ prevOk' = (pc = "exit" /\ exitCode = 0)
  /\ faults' = {}
  /\ UNCHANGED <<file, backups, clock>>

\* fix_notebook returns v after printing m.
Return(v, m) ==
  /\ ret' = v
  /\ log' = Append(log, m)
  /\ pc' = "return"

\* An uncaught exception leaves fix_notebook and main: the interpreter
\* prints a traceback on standard error and exits with status 1.
Crash ==
  /\ pc' = "crashed"
  /\ exitCode' = 1
  /\ UNCHANGED <<ret, log>>

\* Lines 45-47.
CheckExists ==
  /\ pc = "exists"
  /\ IF file.kind = "absent"
     THEN Return("false", Msg("not_found", -1))
     ELSE pc' = "load" /\ UNCHANGED <<ret, log>>
  /\ UNCHANGED <<file, backups, clock, runs, notebook, changes_made, i, ts,
                 exitCode, file0, backups0, prevOk, faults>>

\* Lines 50-60.
Load ==
  /\ pc = "load"
  /\ \/ /\ Return("false", Msg("read_error", -1))
        /\ faults' = faults \cup {"read"}
        /\ UNCHANGED <<notebook, changes_made>>
     \/ /\ ParseFails(file)
        /\ Return("false", Msg("invalid_json", -1))
        /\ UNCHANGED <<notebook, changes_made, faults>>
     \/ /\ ~ParseFails(file)
        /\ notebook' = Parse(file)
        /\ changes_made' = FALSE
        /\ pc' = "nb_level"
        /\ UNCHANGED <<ret, log, faults>>
  /\ UNCHANGED <<file, backups, clock, runs, i, ts, exitCode, file0,
                 backups0, prevOk>>

\* Lines 62-69.
CheckNotebookLevel ==
  /\ pc = "nb_level"
  /\ LET r == NotebookLevel(notebook) IN
       IF r.raised
       THEN Crash /\ UNCHANGED <<notebook, changes_made>>
       ELSE /\ notebook' = r.nb
            /\ changes_made' = (changes_made \/ r.changed)
            /\ log' = IF r.changed
                      THEN Append(log, Msg("remove_notebook", -1))
                      ELSE log
            /\ pc' = "cells"
            /\ UNCHANGED <<ret, exitCode>>
  /\ UNCHANGED <<file, backups, clock, runs, i, ts, file0, backups0, prevOk,
                 faults>>

\* Lines 72-73: enter the loop over the cells, or skip it.
BeginCells ==
  /\ pc = "cells"
  /\ LET e == CellsEntry(notebook) IN
       CASE e = "raise" -> Crash /\ UNCHANGED i
         [] e = "skip"  -> pc' = "decide" /\ UNCHANGED <<i, ret, exitCode, log>>
         [] e = "loop"  -> pc' = "loop" /\ i' = 0
                           /\ UNCHANGED <<ret, exitCode, log>>
  /\ UNCHANGED <<file, backups, clock, runs, notebook, changes_made, ts,
                 file0, backups0, prevOk, faults>>

\* Lines 73-79: one pass of the loop body.
CheckCell ==
  /\ pc = "loop"
  /\ i < Len(CellSeq(notebook))
  /\ LET r == CellStep(notebook, i) IN
       IF r.raised
       THEN Crash /\ UNCHANGED <<notebook, changes_made, i>>
       ELSE /\ notebook' = r.nb
            /\ changes_made' = (changes_made \/ r.changed)
            /\ log' = IF r.changed
                      THEN Append(log, CellNotice(i))
                      ELSE log
            /\ i' = i + 1
            /\ UNCHANGED <<pc, ret, exitCode>>
  /\ UNCHANGED <<file, backups, clock, runs, ts, file0, backups0, prevOk,
                 faults>>

\* Line 73: the iteration is exhausted.
EndCells ==
  /\ pc = "loop"
  /\ i = Len(CellSeq(notebook))
  /\ pc' = "decide"
  /\ UNCHANGED <<file, backups, clock, runs, notebook, changes_made, i, ts,
                 ret, exitCode, log, file0, backups0, prevOk, faults>>

\* Variant of Backup that goes on to the write after a failed copy.
Backup_NoAbort ==
  /\ pc = "decide"
  /\ changes_made
  /\ \E now \in clock..MaxClock :
       /\ clock' = now
       /\ ts' = now
       /\ \/ /\ backups' = [backups EXCEPT ![now] = file]
             /\ log' = Append(log, Msg("backup_created", -1))
             /\ UNCHANGED faults
          \/ /\ \E b \in FailedCopy(file, backups[now]) :
                  backups' = [backups EXCEPT ![now] = b]
             /\ log' = Append(log, Msg("backup_error", -1))
             /\ faults' = faults \cup {"backup"}
       /\ pc' = "write"
       /\ UNCHANGED ret
  /\ UNCHANGED <<file, runs, notebook, changes_made, i, exitCode, file0,
                 backups0, prevOk>>

\* Variant of Backup that saves the corrected document, not the original.
Backup_OfCorrected ==
  /\ pc = "decide"
  /\ changes_made
  /\ \E now \in clock..MaxClock :
       /\ clock' = now
       /\ ts' = now
       /\ \/ /\ backups' = [backups EXCEPT ![now] = Dump(notebook)]
             /\ log' = Append(log, Msg("backup_created", -1))
             /\ pc' = "write"
             /\ UNCHANGED <<ret, faults>>
          \/ /\ \E b \in FailedCopy(file, backups[now]) :
                  backups' = [backups EXCEPT ![now] = b]
             /\ Return("false", Msg("backup_error", -1))
             /\ faults' = faults \cup {"backup"}
  /\ UNCHANGED <<file, runs, notebook, changes_made, i, exitCode, file0,
                 backups0, prevOk>>

\* Lines 81-91: read the clock, name the backup, shutil.copy2 the file.
\* A failed copy leaves one of FailedCopy at the backup path.
Backup ==
  /\ pc = "decide"
  /\ changes_made
  /\ \E now \in clock..MaxClock :
       /\ clock' = now
       /\ ts' = now
       /\ \/ /\ backups' = [backups EXCEPT ![now] = file]
             /\ log' = Append(log, Msg("backup_created", -1))
             /\ pc' = "write"
             /\ UNCHANGED <<ret, faults>>
          \/ /\ \E b \in FailedCopy(file, backups[now]) :
                  backups' = [backups EXCEPT ![now] = b]
             /\ Return("false", Msg("backup_error", -1))
             /\ faults' = faults \cup {"backup"}
  /\ UNCHANGED <<file, runs, notebook, changes_made, i, exitCode, file0,
                 backups0, prevOk>>

\* Variant of Write that dumps the document as it was read from the file.
Write_Stale ==
  /\ pc = "write"
  /\ \/ /\ file' = Dump(Parse(file))
        /\ Return("true", Msg("fixed", -1))
        /\ UNCHANGED faults
     \/ /\ file' \in {file, Truncated, DumpBody(Parse(file)),
                      Dump(Parse(file))}
        /\ log' = Append(log, Msg("write_error", -1))
        /\ pc' = "restore"
        /\ faults' = faults \cup {"write"}
        /\ UNCHANGED ret
  /\ UNCHANGED <<backups, clock, runs, notebook, changes_made, i, ts,
                 exitCode, file0, backups0, prevOk>>

\* Lines 93-101: open the file for writing, dump, add the newline.
\* A failed write leaves the file as it was (open failed), truncated,
\* holding the whole dump without its newline (line 97 failed) or holding
\* the whole dump (the close at the end of the with block failed).
Write ==
  /\ pc = "write"
  /\ \/ /\ file' = Dump(notebook)
        /\ Return("true", Msg("fixed", -1))
        /\ UNCHANGED faults
     \/ /\ file' \in {file, Truncated, DumpBody(notebook), Dump(notebook)}
        /\ log' = Append(log, Msg("write_error", -1))
        /\ pc' = "restore"
        /\ faults' = faults \cup {"write"}
        /\ UNCHANGED ret
  /\ UNCHANGED <<backups, clock, runs, notebook, changes_made, i, ts,
                 exitCode, file0, backups0, prevOk>>

\* Lines 102-108: copy the backup over the file, return False either way.
\* A failed copy leaves one of FailedCopy in the file.
Restore ==
  /\ pc = "restore"
  /\ \/ /\ file' = backups[ts]
        /\ Return("false", Msg("restored", -1))
        /\ UNCHANGED faults
     \/ /\ file' \in FailedCopy(backups[ts], file)
        /\ Return("false", Msg("restore_error", -1))
        /\ faults' = faults \cup {"restore"}
  /\ UNCHANGED <<backups, clock, runs, notebook, changes_made, i, ts,
                 exitCode, file0, backups0, prevOk>>

\* Lines 109-111.
NoChange ==
  /\ pc = "decide"
  /\ ~changes_made
  /\ Return("true", Msg("no_malformed", -1))
  /\ UNCHANGED <<file, backups, clock, runs, notebook, changes_made, i, ts,
                 exitCode, file0, backups0, prevOk, faults>>

\* Lines 134-137: sys.exit(0 if success else 1).
MainExit ==
  /\ pc = "return"
  /\ exitCode' = IF ret = "true" THEN 0 ELSE 1
  /\ pc' = "exit"
  /\ UNCHANGED <<file, backups, clock, runs, notebook, changes_made, i, ts,
                 ret, log, file0, backups0, prevOk, faults>>

Next ==
  \/ Invoke
  \/ CheckExists
  \/ Load
  \/ CheckNotebookLevel
  \/ BeginCells
  \/ CheckCell
  \/ EndCells
  \/ Backup
  \/ Write
  \/ Restore
  \/ NoChange
  \/ MainExit

Spec == Init /\ [][Next]_vars

TypeOK ==
  /\ pc \in {"idle", "exists", "load", "nb_level", "cells", "loop", "decide",
             "write", "restore", "return", "exit", "crashed"}
  /\ ret \in {"none", "true", "false"}
  /\ exitCode \in {-1, 0, 1}
  /\ runs \in 0..MaxRuns
  /\ clock \in 0..MaxClock

\* =================================================================
\* Vocabulary of the properties, stated on documents and independent of
\* the scan above.
IsMapping(v) == v.t = "dict"
HasKey(v, k) == \E j \in DOMAIN v.kv : v.kv[j].k = k
ValueAt(v, k) == v.kv[CHOOSE j \in DOMAIN v.kv : v.kv[j].k = k].v
Keys(v) == [j \in DOMAIN v.kv |-> v.kv[j].k]

\* owner (the document or a cell) has a metadata.widgets entry
HasWidgets(owner) ==
  /\ IsMapping(owner)
  /\ HasKey(owner, K_METADATA)
  /\ IsMapping(ValueAt(owner, K_METADATA))
  /\ HasKey(ValueAt(owner, K_METADATA), K_WIDGETS)
WidgetsOf(owner) == ValueAt(ValueAt(owner, K_METADATA), K_WIDGETS)
WellFormedWidgets(w) == IsMapping(w) /\ HasKey(w, K_STATE)
Malformed(owner) == HasWidgets(owner) /\ ~WellFormedWidgets(WidgetsOf(owner))

\* the cells of a document, <<>> when it has no list of cells
CellsOf(doc) ==
  IF IsMapping(doc) /\ HasKey(doc, K_CELLS) /\ ValueAt(doc, K_CELLS).t = "list"
  THEN ValueAt(doc, K_CELLS).items
  ELSE <<>>
\* 0-based indices of the cells whose widgets entry is malformed
MalformedCells(doc) ==
  {j \in 0..(Len(CellsOf(doc)) - 1) : Malformed(CellsOf(doc)[j + 1])}
AnyMalformed(doc) == Malformed(doc) \/ MalformedCells(doc) # {}

\* the shape the format prescribes: a mapping whose metadata, if any, is a
\* mapping and whose cells, if any, are a list of mappings with the same
\* kind of metadata
MetaOk(owner) ==
  IsMapping(owner)
    /\ (HasKey(owner, K_METADATA) => IsMapping(ValueAt(owner, K_METADATA)))
Conforming(doc) ==
  /\ MetaOk(doc)
  /\ HasKey(doc, K_CELLS) =>
       /\ ValueAt(doc, K_CELLS).t = "list"
       /\ \A j \in DOMAIN CellsOf(doc) : MetaOk(CellsOf(doc)[j])

\* owner without its widgets entry when that entry is malformed
Scrubbed(owner) ==
  IF Malformed(owner)
  THEN [owner EXCEPT !.kv = [j \in DOMAIN owner.kv |->
          IF owner.kv[j].k = K_METADATA
          THEN [k |-> K_METADATA,
                v |-> [owner.kv[j].v EXCEPT !.kv =
                         SelectSeq(owner.kv[j].v.kv,
                                   LAMBDA e : e.k # K_WIDGETS)]]
          ELSE owner.kv[j]]]
  ELSE owner
\* doc with every malformed widgets entry deleted and nothing else touched
Repaired(doc) ==
  LET top == Scrubbed(doc) IN
  IF CellsOf(doc) = <<>> THEN top
  ELSE [top EXCEPT !.kv = [j \in DOMAIN top.kv |->
          IF top.kv[j].k = K_CELLS
          THEN [k |-> K_CELLS,
                v |-> [top.kv[j].v EXCEPT !.items =
                         [c \in DOMAIN CellsOf(doc) |->
                            Scrubbed(CellsOf(doc)[c])]]]
          ELSE top.kv[j]]]

\* ------------------------------------------------ the run under scrutiny
Doc0 == Parse(file0)
\* the current run has parsed the file
Loaded ==
  /\ runs >= 1
  /\ file0.kind = "json"
  /\ "read" \notin faults
  /\ pc \notin {"idle", "exists", "load"}
Returned  == pc \in {"return", "exit"}
Terminal  == pc \in {"exit", "crashed"}
ScanDone  == pc \in {"decide", "write", "restore", "return", "exit"}
\* the run deleted entries and wrote the file
WroteOk   == Returned /\ ret = "true" /\ changes_made
Printed(m) == \E j \in DOMAIN log : log[j].msg = m
ErrorMsgs ==
  {"not_found", "invalid_json", "read_error", "backup_error", "write_error"}
\* the cell indices of the removal notices, in the order printed
CellNotices ==
  LET ns == SelectSeq(log, LAMBDA m : m.msg = "remove_cell")
  IN [j \in DOMAIN ns |-> ns[j].i]
\* s lists the members of S in ascending order, each once
AscendingListOf(s, S) ==
  /\ {s[j] : j \in DOMAIN s} = S
  /\ \A a, b \in DOMAIN s : a < b => s[a] < s[b]

\* C1: after a run that deleted entries and wrote the file, the document on
\* disk has no malformed widgets entry at notebook level or in any cell, and
\* a widgets entry is present exactly where the original had one that is a
\* mapping containing `state` (so null, list, string, number, {} and
\* mappings without `state` are all gone, and none is fabricated).
C1_NoMalformedAfterRepair ==
  WroteOk =>
    /\ file.kind = "json"
    /\ LET d == Parse(file) IN
         /\ ~AnyMalformed(d)
         /\ HasWidgets(d) <=>
              (HasWidgets(Doc0) /\ WellFormedWidgets(WidgetsOf(Doc0)))
         /\ Len(CellsOf(d)) = Len(CellsOf(Doc0))
         /\ \A j \in DOMAIN CellsOf(Doc0) :
              HasWidgets(CellsOf(d)[j]) <=>
                (HasWidgets(CellsOf(Doc0)[j])
                   /\ WellFormedWidgets(WidgetsOf(CellsOf(Doc0)[j])))

\* a repair that deleted an empty mapping in a cell and a non-mapping at
\* notebook level, and kept a well-formed entry in another cell
C1_Witness ==
  /\ WroteOk
  /\ pc = "exit"
  /\ Malformed(Doc0) /\ ~IsMapping(WidgetsOf(Doc0))
  /\ \E j \in DOMAIN CellsOf(Doc0) :
       HasWidgets(CellsOf(Doc0)[j]) /\ WidgetsOf(CellsOf(Doc0)[j]) = Dict(<<>>)
  /\ \E j \in DOMAIN CellsOf(Doc0) :
       HasWidgets(CellsOf(Doc0)[j]) /\ ~Malformed(CellsOf(Doc0)[j])

\* C2: once the backup copy has failed, the run returns False (exit status
\* 1) without reaching the write, and the file is what it was when the run
\* began; in every run the file differs from its content at the start of the
\* run, or the write or restore step is reached, only when the backup copy
\* succeeded and holds that content.
C2_BackupBeforeWrite ==
  /\ "backup" \in faults =>
       /\ file = file0
       /\ Returned /\ ret = "false"
       /\ pc = "exit" => exitCode = 1
       /\ ~Printed("fixed") /\ ~Printed("write_error")
  /\ (runs >= 1 /\ (file # file0 \/ pc \in {"write", "restore"}
                      \/ Printed("fixed") \/ Printed("write_error"))) =>
       /\ "backup" \notin faults
       /\ Printed("backup_created")
       /\ ts \in 0..MaxClock
       /\ backups[ts] = file0

C2_Witness ==
  /\ pc = "exit"
  /\ "backup" \in faults
  /\ exitCode = 1
  /\ AnyMalformed(Doc0)

\* C3: when a run has ended, the file holds either exactly what it held when
\* the run began or the complete serialization of the corrected document,
\* whichever of the backup, write and restore steps failed.
C3_NeverHalfWritten ==
  Terminal =>
    \/ file = file0
    \/ Loaded /\ file = Dump(Repaired(Doc0))

\* C4: every run ends in main with exit status 0 or 1, a failing one after
\* printing an error message, and no run ends with an uncaught exception,
\* whatever the shape of the parsed document.
C4_NoUncaughtException ==
  /\ pc # "crashed"
  /\ pc = "exit" =>
       /\ exitCode \in {0, 1}
       /\ exitCode = 1 => \E m \in ErrorMsgs : Printed(m)

\* C5: a run on a document with no malformed widgets entry creates no
\* backup and never writes the file, which stays as it was; when it returns
\* it reports that nothing was found and returns True (exit status 0), and
\* on a document of the prescribed shape it always returns.
C5_NoOpWhenNothingMalformed ==
  (Loaded /\ ~AnyMalformed(Doc0)) =>
    /\ file = file0
    /\ backups = backups0
    /\ ~changes_made
    /\ pc \notin {"write", "restore"}
    /\ Returned => ret = "true" /\ log = <<Msg("no_malformed", -1)>>
    /\ pc = "exit" => exitCode = 0
    /\ Conforming(Doc0) => pc # "crashed"

\* a first run that ended on a document holding a well-formed widgets entry
C5_Witness ==
  /\ Loaded /\ pc = "exit" /\ runs = 1
  /\ ~AnyMalformed(Doc0)
  /\ \E j \in DOMAIN CellsOf(Doc0) : HasWidgets(CellsOf(Doc0)[j])
  /\ file.style = "src"

\* C6: a run on a document of the prescribed shape with some malformed
\* widgets entry, in which neither the backup nor the write failed, ends with
\* exit status 0 and with a backup at the timestamp it read whose content is
\* the content the file had when the run began.
C6_BackupMatchesOriginal ==
  (Loaded /\ Terminal /\ Conforming(Doc0) /\ AnyMalformed(Doc0)
     /\ faults \cap {"backup", "write"} = {}) =>
    /\ pc = "exit"
    /\ exitCode = 0
    /\ ts \in 0..MaxClock
    /\ backups[ts] = file0
    /\ Printed("backup_created")

\* a second run that repaired the file, its backup landing on the
\* timestamp of the first run's failed backup
C6_Witness ==
  /\ Loaded /\ pc = "exit" /\ exitCode = 0
  /\ AnyMalformed(Doc0)
  /\ runs = 2
  /\ backups0[ts] # Absent
  /\ backups[ts] = file0

\* C7: the document a repair writes is the original with exactly the
\* malformed widgets entries deleted: same top-level keys in the same order,
\* same number of cells, each cell with the same keys in the same order,
\* every other metadata key, every value and every well-formed widgets
\* entry unchanged.
C7_OnlyMalformedWidgetsAltered ==
  WroteOk =>
    LET d == Parse(file) IN
      /\ d = Repaired(Doc0)
      /\ Keys(d) = Keys(Doc0)
      /\ Len(CellsOf(d)) = Len(CellsOf(Doc0))
      /\ \A j \in DOMAIN CellsOf(Doc0) :
           /\ IsMapping(CellsOf(Doc0)[j]) =>
                Keys(CellsOf(d)[j]) = Keys(CellsOf(Doc0)[j])
           /\ ~Malformed(CellsOf(Doc0)[j]) => CellsOf(d)[j] = CellsOf(Doc0)[j]
      /\ HasKey(Doc0, K_METADATA) =>
           Keys(ValueAt(d, K_METADATA)) =
             SelectSeq(Keys(ValueAt(Doc0, K_METADATA)),
                       LAMBDA k : ~(k = K_WIDGETS /\ Malformed(Doc0)))

\* a repair of a document whose metadata has keys before and after the
\* malformed entry and that has a cell with a well-formed entry
C7_Witness ==
  /\ WroteOk /\ pc = "exit"
  /\ Malformed(Doc0)
  /\ Keys(ValueAt(Doc0, K_METADATA)) = <<K_KERNELSPEC, K_WIDGETS, K_LANGUAGE>>
  /\ Keys(ValueAt(Parse(file), K_METADATA)) = <<K_KERNELSPEC, K_LANGUAGE>>
  /\ \E j \in DOMAIN CellsOf(Doc0) :
       HasWidgets(CellsOf(Doc0)[j]) /\ ~Malformed(CellsOf(Doc0)[j])

\* C8: the cell indices of the removal notices printed so far are, in
\* ascending order and once each, the indices of the malformed cells the
\* loop has passed (all of them once the scan is over); a cell that is not
\* malformed is in the notebook as it was parsed, a malformed cell the loop
\* has passed differs from the parsed one only by the deleted entry, and a
\* document of the prescribed shape never stops the scan.
C8_CellNoticesByIndex ==
  Loaded =>
    LET passed == IF ScanDone THEN Len(CellsOf(Doc0)) ELSE i
        cells  == CellsOf(notebook)
    IN /\ AscendingListOf(CellNotices,
                          {j \in MalformedCells(Doc0) : j < passed})
       /\ Len(cells) = Len(CellsOf(Doc0))
       /\ \A j \in DOMAIN cells :
            cells[j] = IF j - 1 < passed
                       THEN Scrubbed(CellsOf(Doc0)[j])
                       ELSE CellsOf(Doc0)[j]
       /\ Conforming(Doc0) => pc # "crashed"

\* three cells of which only the one at index 1 is malformed: one notice,
\* naming index 1
C8_Witness ==
  /\ Loaded /\ pc = "exit" /\ exitCode = 0
  /\ Len(CellsOf(Doc0)) = 3
  /\ MalformedCells(Doc0) = {1}
  /\ ~Malformed(Doc0)
  /\ CellNotices = <<1>>
  /\ CellsOf(Parse(file))[1] = CellsOf(Doc0)[1]
  /\ CellsOf(Parse(file))[3] = CellsOf(Doc0)[3]

\* C9: a run that follows a run which exited with status 0, and that reads
\* the file, finds nothing malformed: it deletes nothing, leaves the file
\* and the backups as the first run left them, does not stop on an
\* exception, and returns True (exit status 0).
C9_SecondRunIsNoOp ==
  (prevOk /\ "read" \notin faults) =>
    /\ file = file0
    /\ backups = backups0
    /\ ~changes_made
    /\ ~Printed("remove_notebook") /\ ~Printed("remove_cell")
    /\ pc # "crashed"
    /\ Returned => ret = "true" /\ Printed("no_malformed")
    /\ pc = "exit" => exitCode = 0

\* the second run has ended after a first run that repaired the file
C9_Witness ==
  /\ prevOk /\ runs = 2 /\ pc = "exit" /\ exitCode = 0
  /\ file.style = "indent2"
  /\ \E t \in 0..MaxClock :
       /\ backups[t].kind = "json"
       /\ AnyMalformed(Parse(backups[t]))
       /\ file = Dump(Repaired(Parse(backups[t])))

\* C10: fix_notebook returns True if it made changes to the notebook and
\* False otherwise (the wording of its docstring, lines 41-42).  The code
\* returns True at line 111 with nothing changed, and False at lines 91 and
\* 108 after it deleted entries from the notebook it holds.
C10_TrueIffChangesMade ==
  Returned => (ret = "true" <=> changes_made)
====
